---- MODULE Spec2Model ----
(***************************************************************************)
(* Model of the outline parser of outlaw-format (src/src/parsing.rs).      *)
(*                                                                         *)
(* parse_document folds over the input lines; one action of the model is   *)
(* one iteration of that loop, one action per branch of its if/else-if     *)
(* chain.  The text of a line is abstracted to what the parser looks at:   *)
(* its number of leading whitespace columns (num_indent) and the class of  *)
(* its trimmed text (header, bullet item, task item, plain text, empty)    *)
(* together with whether the fence marker occurs in it.                    *)
(***************************************************************************)
EXTENDS Integers, Sequences, FiniteSets, TLC

VARIABLES document, context, input, ctx_log, aborted

vars == <<document, context, input, ctx_log, aborted>>

(***************************************************************************)
(* Bounds of the model.                                                    *)
(***************************************************************************)
\* general specification: every class of line
MaxLines == 3
MaxIndent == 1
\* header specification: headers and one plain line
MaxHeaderLines == 6
MaxHeaderIndent == 3
\* deep header specification: headers only
MaxDeepLines == 6
MaxDeepIndent == 4
\* list specification: bullet items, task items, plain lines and a header
MaxListLines == 4
MaxListIndent == 2
\* item specification: bullet items and task items only
MaxItemLines == 5
MaxItemIndent == 2
\* continuation specification: list items followed by plain and empty lines
MaxWrapLines == 5
MaxWrapIndent == 1
\* fence specification: markers, plain lines, a header and a bullet item
MaxFenceLines == 4
MaxFenceIndent == 4

(***************************************************************************)
(* Helpers of the model (no counterpart in the source).                    *)
(***************************************************************************)
Max(S) == CHOOSE x \in S : \A y \in S : y <= x

Last(s) == s[Len(s)]

Some(x) == <<x>>

None == <<>>

saturating_sub(a, b) == IF a >= b THEN a - b ELSE 0

(***************************************************************************)
(* RawLine: num_indent and the trimmed text.  The trimmed text is the      *)
(* record [cls, marker]: cls decides is_header / is_list_item / is_empty,  *)
(* marker decides contains_marker.                                         *)
(***************************************************************************)
Classes == {"header", "bullet", "todo", "plain", "empty"}

Trimmed == {t \in [cls : Classes, marker : BOOLEAN] : t.cls = "empty" => ~t.marker}

RawLine(n, cls, marker) == [num_indent |-> n, trimmed |-> [cls |-> cls, marker |-> marker]]

is_header(raw_line) == raw_line.trimmed.cls = "header"

is_list_item(raw_line) == raw_line.trimmed.cls \in {"bullet", "todo"}

contains_marker(raw_line) == raw_line.trimmed.marker

is_empty(raw_line) == raw_line.trimmed.cls = "empty"

(***************************************************************************)
(* LineType and FormattedLine.  contents is the rendered text: a prefix    *)
(* (the empty string, or the fixed prefix of a line type), a number of     *)
(* spaces, and the trimmed text.                                           *)
(***************************************************************************)
LineTypes == {"Header", "ListBulletPoint", "ListTodoItem", "Text",
              "ListContinuousLine", "Preformatted"}

get_prefix(line_type) == IF line_type = "Text" THEN "" ELSE line_type

line_type_of(raw_line) ==
    IF is_header(raw_line) THEN "Header"
    ELSE IF raw_line.trimmed.cls = "bullet" THEN "ListBulletPoint"
    ELSE IF raw_line.trimmed.cls = "todo" THEN "ListTodoItem"
    ELSE "Text"

from_raw(raw_line, indent_level) ==
    [indent_level |-> indent_level,
     line_type    |-> line_type_of(raw_line),
     contents     |-> [prefix |-> "", spaces |-> 0, text |-> raw_line.trimmed],
     original_raw |-> raw_line]

line_is_list_item(line) == line.line_type \in {"ListBulletPoint", "ListTodoItem"}

(***************************************************************************)
(* Block: an optional header (None or Some(line)) and the body lines.      *)
(***************************************************************************)
Block_new(header) == [header |-> Some(header), lines |-> <<>>]

Block_empty == [header |-> None, lines |-> <<>>]

has_header(block) == block.header # None

contents_indent_level(block) ==
    IF has_header(block) THEN block.header[1].indent_level + 1 ELSE 0

raw_header_indent(block) ==
    IF has_header(block) THEN block.header[1].original_raw.num_indent ELSE 0

last_line(block) == IF block.lines = <<>> THEN None ELSE Some(Last(block.lines))

find_previous_of(block, line_type) ==
    LET found == {i \in 1..Len(block.lines) : block.lines[i].line_type = line_type}
    IN  IF found = {} THEN None ELSE Some(block.lines[Max(found)])

find_latest_line_with_raw_indent(block, n) ==
    LET found == {i \in 1..Len(block.lines) : block.lines[i].original_raw.num_indent = n}
    IN  IF found = {} THEN None ELSE Some(block.lines[Max(found)])

add_line(block, line) == [block EXCEPT !.lines = Append(@, line)]

(***************************************************************************)
(* Document: the sequence of blocks, the first one headerless.             *)
(***************************************************************************)
Document_new == <<Block_empty>>

last_block(doc) == Last(doc)

add_block(doc, block) == Append(doc, block)

add_line_to_last_block(doc, line) == [doc EXCEPT ![Len(doc)] = add_line(@, line)]

find_latest_block_with_raw_indent(doc, n) ==
    LET found == {i \in 1..Len(doc) :
                     has_header(doc[i]) /\ raw_header_indent(doc[i]) = n}
    IN  IF found = {} THEN None ELSE Some(doc[Max(found)])

(***************************************************************************)
(* Context: the fence mode.                                                *)
(***************************************************************************)
Normal == [mode |-> "Normal", base_indent |-> 0]

HandlingFencedFiletype(base_indent) ==
    [mode |-> "HandlingFencedFiletype", base_indent |-> base_indent]

in_fence(ctx) == ctx.mode = "HandlingFencedFiletype"

(***************************************************************************)
(* Variants of determine_new_header_indent, each with one slip.            *)
(***************************************************************************)
\* the comparison of the two raw indents is read the other way round
determine_new_header_indent_swapped(doc, raw_line) ==
    LET previous_block == last_block(doc)
        p == raw_header_indent(previous_block)
        r == raw_line.num_indent
    IN  IF p = r
          THEN saturating_sub(contents_indent_level(previous_block), 1)
        ELSE IF p < r
          THEN LET block == find_latest_block_with_raw_indent(doc, r)
               IN  IF block = None THEN 0
                   ELSE saturating_sub(contents_indent_level(block[1]), 1)
        ELSE contents_indent_level(previous_block)

\* the block found by the lookup gives its contents level, not its header's
determine_new_header_indent_no_sub(doc, raw_line) ==
    LET previous_block == last_block(doc)
        p == raw_header_indent(previous_block)
        r == raw_line.num_indent
    IN  IF p = r
          THEN saturating_sub(contents_indent_level(previous_block), 1)
        ELSE IF p > r
          THEN LET block == find_latest_block_with_raw_indent(doc, r)
               IN  IF block = None THEN 0
                   ELSE contents_indent_level(block[1])
        ELSE contents_indent_level(previous_block)

\* a sibling gets the contents level of the previous block
determine_new_header_indent_sibling_deeper(doc, raw_line) ==
    LET previous_block == last_block(doc)
        p == raw_header_indent(previous_block)
        r == raw_line.num_indent
    IN  IF p = r
          THEN contents_indent_level(previous_block)
        ELSE IF p > r
          THEN LET block == find_latest_block_with_raw_indent(doc, r)
               IN  IF block = None THEN 0
                   ELSE saturating_sub(contents_indent_level(block[1]), 1)
        ELSE contents_indent_level(previous_block)

(***************************************************************************)
(* determine_new_header_indent                                             *)
(***************************************************************************)
determine_new_header_indent(doc, raw_line) ==
    LET previous_block == last_block(doc)
        p == raw_header_indent(previous_block)
        r == raw_line.num_indent
    IN  IF p = r
          THEN saturating_sub(contents_indent_level(previous_block), 1)
        ELSE IF p > r
          THEN LET block == find_latest_block_with_raw_indent(doc, r)
               IN  IF block = None THEN 0
                   ELSE saturating_sub(contents_indent_level(block[1]), 1)
        ELSE contents_indent_level(previous_block)

(***************************************************************************)
(* Variant of determine_new_bullet_point_indent with one slip: an item     *)
(* shifted left goes up one level from the previous list item instead of   *)
(* replaying the level recorded for its raw indent.                        *)
(***************************************************************************)
determine_new_bullet_point_indent_one_up(current_block, raw_line) ==
    LET previous_list_item ==
            LET bullet == find_previous_of(current_block, "ListBulletPoint")
            IN  IF bullet # None THEN bullet
                ELSE find_previous_of(current_block, "ListTodoItem")
        r == raw_line.num_indent
    IN  IF previous_list_item # None
          THEN LET p == previous_list_item[1].original_raw.num_indent
               IN  IF p = r THEN previous_list_item[1].indent_level
                   ELSE IF p > r
                     THEN saturating_sub(previous_list_item[1].indent_level, 1)
                   ELSE previous_list_item[1].indent_level + 1
        ELSE LET previous_text == find_previous_of(current_block, "Text")
             IN  IF previous_text # None THEN previous_text[1].indent_level
                 ELSE contents_indent_level(current_block)

\* a slip: an item shifted left to a raw indent the block has not seen
\* falls back to level 0, not to the block's contents level
determine_new_bullet_point_indent_fallback_zero(current_block, raw_line) ==
    LET previous_list_item ==
            LET bullet == find_previous_of(current_block, "ListBulletPoint")
            IN  IF bullet # None THEN bullet
                ELSE find_previous_of(current_block, "ListTodoItem")
        r == raw_line.num_indent
    IN  IF previous_list_item # None
          THEN LET p == previous_list_item[1].original_raw.num_indent
               IN  IF p = r THEN previous_list_item[1].indent_level
                   ELSE IF p > r
                     THEN LET line == find_latest_line_with_raw_indent(current_block, r)
                          IN  IF line = None THEN 0 ELSE line[1].indent_level
                   ELSE previous_list_item[1].indent_level + 1
        ELSE LET previous_text == find_previous_of(current_block, "Text")
             IN  IF previous_text # None THEN previous_text[1].indent_level
                 ELSE contents_indent_level(current_block)

(***************************************************************************)
(* determine_new_bullet_point_indent                                       *)
(***************************************************************************)
determine_new_bullet_point_indent(current_block, raw_line) ==
    LET previous_list_item ==
            LET bullet == find_previous_of(current_block, "ListBulletPoint")
            IN  IF bullet # None THEN bullet
                ELSE find_previous_of(current_block, "ListTodoItem")
        r == raw_line.num_indent
    IN  IF previous_list_item # None
          THEN LET p == previous_list_item[1].original_raw.num_indent
               IN  IF p = r THEN previous_list_item[1].indent_level
                   ELSE IF p > r
                     THEN LET line == find_latest_line_with_raw_indent(current_block, r)
                          IN  IF line = None
                                THEN contents_indent_level(current_block)
                                ELSE line[1].indent_level
                   ELSE previous_list_item[1].indent_level + 1
        ELSE LET previous_text == find_previous_of(current_block, "Text")
             IN  IF previous_text # None THEN previous_text[1].indent_level
                 ELSE contents_indent_level(current_block)

(***************************************************************************)
(* Variant of parse_text_line with one slip: the test for an empty line    *)
(* is left out.                                                            *)
(***************************************************************************)
parse_text_line_empty_too(current_block, raw_line) ==
    LET previous_line == last_line(current_block)
    IN  IF previous_line # None
          THEN IF line_is_list_item(previous_line[1])
                 THEN [indent_level |-> previous_line[1].indent_level,
                       line_type    |-> "ListContinuousLine",
                       contents     |-> [prefix |-> get_prefix("ListContinuousLine"),
                                         spaces |-> 0,
                                         text   |-> raw_line.trimmed],
                       original_raw |-> raw_line]
               ELSE IF has_header(current_block)
                 THEN from_raw(raw_line, contents_indent_level(current_block))
               ELSE from_raw(raw_line, contents_indent_level(current_block))
        ELSE from_raw(raw_line, contents_indent_level(current_block))

(***************************************************************************)
(* parse_text_line                                                         *)
(***************************************************************************)
parse_text_line(current_block, raw_line) ==
    LET previous_line == last_line(current_block)
    IN  IF previous_line # None
          THEN IF line_is_list_item(previous_line[1]) /\ ~is_empty(raw_line)
                 THEN [indent_level |-> previous_line[1].indent_level,
                       line_type    |-> "ListContinuousLine",
                       contents     |-> [prefix |-> get_prefix("ListContinuousLine"),
                                         spaces |-> 0,
                                         text   |-> raw_line.trimmed],
                       original_raw |-> raw_line]
               ELSE IF has_header(current_block)
                 THEN from_raw(raw_line, contents_indent_level(current_block))
               ELSE from_raw(raw_line, contents_indent_level(current_block))
        ELSE from_raw(raw_line, contents_indent_level(current_block))

(***************************************************************************)
(* The Preformatted line of the last branch of the loop body, and a        *)
(* variant with one slip: the indentation is trimmed off as for any other  *)
(* line.                                                                   *)
(***************************************************************************)
preformatted_line_trimmed(current_block, base_indent, raw_line) ==
    [indent_level |-> contents_indent_level(current_block),
     line_type    |-> "Preformatted",
     contents     |-> [prefix |-> "", spaces |-> 0, text |-> raw_line.trimmed],
     original_raw |-> raw_line]

\* a slip: the whole raw indent is kept, the base indent is not taken off
preformatted_line_no_base(current_block, base_indent, raw_line) ==
    [indent_level |-> contents_indent_level(current_block),
     line_type    |-> "Preformatted",
     contents     |-> [prefix |-> "",
                       spaces |-> raw_line.num_indent,
                       text   |-> raw_line.trimmed],
     original_raw |-> raw_line]

preformatted_line(current_block, base_indent, raw_line) ==
    [indent_level |-> contents_indent_level(current_block),
     line_type    |-> "Preformatted",
     contents     |-> [prefix |-> "",
                       spaces |-> saturating_sub(raw_line.num_indent, base_indent),
                       text   |-> raw_line.trimmed],
     original_raw |-> raw_line]

(***************************************************************************)
(* The branches of the loop body of parse_document.                        *)
(***************************************************************************)
\* a slip: a header met while the document is still empty takes the place
\* of the leading headerless block
header_branch_reuse_empty(doc, raw_line) ==
    LET block == Block_new(from_raw(raw_line,
                                    determine_new_header_indent(doc, raw_line)))
    IN  IF Len(doc) = 1 /\ doc[1].lines = <<>> THEN <<block>>
        ELSE add_block(doc, block)

header_branch(doc, raw_line) ==
    add_block(doc, Block_new(from_raw(raw_line,
                                      determine_new_header_indent(doc, raw_line))))

list_item_branch(doc, raw_line) ==
    add_line_to_last_block(doc,
        from_raw(raw_line,
                 determine_new_bullet_point_indent(last_block(doc), raw_line)))

\* a slip in the toggle: the raw indent of the opening marker is not kept
toggle_no_base(ctx, raw_line) ==
    IF in_fence(ctx) THEN Normal ELSE HandlingFencedFiletype(0)

toggle(ctx, raw_line) ==
    IF in_fence(ctx) THEN Normal ELSE HandlingFencedFiletype(raw_line.num_indent)

marker_branch(doc, raw_line) ==
    add_line_to_last_block(doc, parse_text_line(last_block(doc), raw_line))

\* a slip: the line goes to the first block, not to the last one
other_branch_to_first(doc, ctx, raw_line) ==
    [doc EXCEPT ![1] = add_line(@,
        IF in_fence(ctx)
          THEN preformatted_line(last_block(doc), ctx.base_indent, raw_line)
          ELSE parse_text_line(last_block(doc), raw_line))]

other_branch(doc, ctx, raw_line) ==
    add_line_to_last_block(doc,
        IF in_fence(ctx)
          THEN preformatted_line(last_block(doc), ctx.base_indent, raw_line)
          ELSE parse_text_line(last_block(doc), raw_line))

(***************************************************************************)
(* One iteration of the loop as a function of the parser state, and        *)
(* parse_document as the fold of it over the lines.                        *)
(***************************************************************************)
parse_line(st, raw_line) ==
    IF is_header(raw_line)
      THEN [document |-> header_branch(st.document, raw_line),
            context  |-> st.context]
    ELSE IF is_list_item(raw_line)
      THEN [document |-> list_item_branch(st.document, raw_line),
            context  |-> st.context]
    ELSE IF contains_marker(raw_line)
      THEN [document |-> marker_branch(st.document, raw_line),
            context  |-> toggle(st.context, raw_line)]
    ELSE [document |-> other_branch(st.document, st.context, raw_line),
          context  |-> st.context]

RECURSIVE parse_state(_)
parse_state(lines) ==
    IF lines = <<>> THEN [document |-> Document_new, context |-> Normal]
    ELSE parse_line(parse_state(SubSeq(lines, 1, Len(lines) - 1)), Last(lines))

parse_document(lines) == parse_state(lines).document

(***************************************************************************)
(* The conditions of the if/else-if chain of the loop body, and the        *)
(* assertions at the head of the two indent computations.                  *)
(***************************************************************************)
header_dispatch(raw_line) == is_header(raw_line)

\* a slip in the chain: a line with the fence marker is taken for a list item
list_item_dispatch_or_marker(raw_line) ==
    ~is_header(raw_line) /\ (is_list_item(raw_line) \/ contains_marker(raw_line))

list_item_dispatch(raw_line) == ~is_header(raw_line) /\ is_list_item(raw_line)

marker_dispatch(raw_line) ==
    ~is_header(raw_line) /\ ~is_list_item(raw_line) /\ contains_marker(raw_line)

other_dispatch(raw_line) ==
    ~is_header(raw_line) /\ ~is_list_item(raw_line) /\ ~contains_marker(raw_line)

header_assertion(raw_line) == is_header(raw_line)

list_item_assertion(raw_line) == is_list_item(raw_line)

(***************************************************************************)
(* The state machine: input is the lines consumed so far, ctx_log the      *)
(* fence mode each of them was met in, aborted whether an assertion has    *)
(* failed (a panic ends the loop).                                         *)
(***************************************************************************)
Init ==
    /\ document = Document_new
    /\ context = Normal
    /\ input = <<>>
    /\ ctx_log = <<>>
    /\ aborted = FALSE

Abort ==
    /\ aborted' = TRUE
    /\ UNCHANGED <<document, context, input, ctx_log>>

Consume(raw_line) ==
    /\ input' = Append(input, raw_line)
    /\ ctx_log' = Append(ctx_log, context)

\* a slip in the header branch: a header with the fence marker toggles the
\* fence mode as a marker line does
HeaderLine_toggles(raw_line) ==
    /\ ~aborted
    /\ header_dispatch(raw_line)
    /\ IF header_assertion(raw_line)
         THEN /\ document' = header_branch(document, raw_line)
              /\ context' = IF contains_marker(raw_line)
                              THEN toggle(context, raw_line) ELSE context
              /\ Consume(raw_line)
              /\ UNCHANGED aborted
         ELSE Abort

HeaderLine(raw_line) ==
    /\ ~aborted
    /\ header_dispatch(raw_line)
    /\ IF header_assertion(raw_line)
         THEN /\ document' = header_branch(document, raw_line)
              /\ UNCHANGED <<context, aborted>>
              /\ Consume(raw_line)
         ELSE Abort

ListItemLine(raw_line) ==
    /\ ~aborted
    /\ list_item_dispatch(raw_line)
    /\ IF list_item_assertion(raw_line)
         THEN /\ document' = list_item_branch(document, raw_line)
              /\ UNCHANGED <<context, aborted>>
              /\ Consume(raw_line)
         ELSE Abort

MarkerLine(raw_line) ==
    /\ ~aborted
    /\ marker_dispatch(raw_line)
    /\ context' = toggle(context, raw_line)
    /\ document' = marker_branch(document, raw_line)
    /\ UNCHANGED aborted
    /\ Consume(raw_line)

OtherLine(raw_line) ==
    /\ ~aborted
    /\ other_dispatch(raw_line)
    /\ document' = other_branch(document, context, raw_line)
    /\ UNCHANGED <<context, aborted>>
    /\ Consume(raw_line)

(***************************************************************************)
(* Input alphabets.                                                        *)
(***************************************************************************)
Upto(limit, S) == IF Len(input) < limit THEN S ELSE {}

AllLines == {[num_indent |-> n, trimmed |-> t] : n \in 0..MaxIndent, t \in Trimmed}

HeaderSpecLines ==
    {RawLine(n, "header", FALSE) : n \in 0..MaxHeaderIndent}
        \cup {RawLine(0, "plain", FALSE)}

ListSpecLines ==
    {RawLine(n, c, FALSE) : n \in 0..MaxListIndent, c \in {"bullet", "todo", "plain"}}
        \cup {RawLine(0, "header", FALSE)}

DeepSpecLines == {RawLine(n, "header", FALSE) : n \in 0..MaxDeepIndent}

ItemSpecLines ==
    {RawLine(n, c, FALSE) : n \in 0..MaxItemIndent, c \in {"bullet", "todo"}}

WrapSpecLines ==
    {RawLine(n, "bullet", FALSE) : n \in 0..MaxWrapIndent}
        \cup {RawLine(0, "todo", FALSE), RawLine(0, "plain", FALSE),
              RawLine(0, "empty", FALSE), RawLine(0, "plain", TRUE),
              RawLine(0, "header", FALSE), RawLine(1, "header", FALSE)}

FenceSpecLines ==
    {RawLine(n, "plain", FALSE) : n \in 0..MaxFenceIndent}
        \cup {RawLine(n, "plain", TRUE) : n \in 0..MaxFenceIndent}
        \cup {RawLine(0, "header", FALSE), RawLine(0, "bullet", FALSE),
              RawLine(0, "empty", FALSE)}

(***************************************************************************)
(* Specifications.                                                         *)
(***************************************************************************)
Next ==
    \/ \E raw_line \in Upto(MaxLines, AllLines) : HeaderLine(raw_line)
    \/ \E raw_line \in Upto(MaxLines, AllLines) : ListItemLine(raw_line)
    \/ \E raw_line \in Upto(MaxLines, AllLines) : MarkerLine(raw_line)
    \/ \E raw_line \in Upto(MaxLines, AllLines) : OtherLine(raw_line)

Spec == Init /\ [][Next]_vars

NextHeaders ==
    \/ \E raw_line \in Upto(MaxHeaderLines, HeaderSpecLines) : HeaderLine(raw_line)
    \/ \E raw_line \in Upto(MaxHeaderLines, HeaderSpecLines) : OtherLine(raw_line)

SpecHeaders == Init /\ [][NextHeaders]_vars

NextDeep ==
    \E raw_line \in Upto(MaxDeepLines, DeepSpecLines) : HeaderLine(raw_line)

SpecDeep == Init /\ [][NextDeep]_vars

NextItems ==
    \E raw_line \in Upto(MaxItemLines, ItemSpecLines) : ListItemLine(raw_line)

SpecItems == Init /\ [][NextItems]_vars

NextLists ==
    \/ \E raw_line \in Upto(MaxListLines, ListSpecLines) : HeaderLine(raw_line)
    \/ \E raw_line \in Upto(MaxListLines, ListSpecLines) : ListItemLine(raw_line)
    \/ \E raw_line \in Upto(MaxListLines, ListSpecLines) : OtherLine(raw_line)

SpecLists == Init /\ [][NextLists]_vars

NextWrap ==
    \/ \E raw_line \in Upto(MaxWrapLines, WrapSpecLines) : HeaderLine(raw_line)
    \/ \E raw_line \in Upto(MaxWrapLines, WrapSpecLines) : ListItemLine(raw_line)
    \/ \E raw_line \in Upto(MaxWrapLines, WrapSpecLines) : MarkerLine(raw_line)
    \/ \E raw_line \in Upto(MaxWrapLines, WrapSpecLines) : OtherLine(raw_line)

SpecWrap == Init /\ [][NextWrap]_vars

NextFences ==
    \/ \E raw_line \in Upto(MaxFenceLines, FenceSpecLines) : HeaderLine(raw_line)
    \/ \E raw_line \in Upto(MaxFenceLines, FenceSpecLines) : ListItemLine(raw_line)
    \/ \E raw_line \in Upto(MaxFenceLines, FenceSpecLines) : MarkerLine(raw_line)
    \/ \E raw_line \in Upto(MaxFenceLines, FenceSpecLines) : OtherLine(raw_line)

SpecFences == Init /\ [][NextFences]_vars

(***************************************************************************)
(* Views of the state used by the properties.                              *)
(***************************************************************************)
\* the lines of a block, header first
block_lines(block) == block.header \o block.lines

RECURSIVE flat_upto(_, _)
flat_upto(doc, k) == IF k = 0 THEN <<>> ELSE flat_upto(doc, k - 1) \o block_lines(doc[k])

\* every line of the document in document order
Flat == flat_upto(document, Len(document))

\* position in the input of body line j of block b
InputIndex(b, j) == Len(flat_upto(document, b - 1)) + Len(document[b].header) + j

\* the model's state is the fold of the loop body over the consumed lines
FoldAgrees ==
    /\ document = parse_document(input)
    /\ context = parse_state(input).context
    /\ Len(Flat) = Len(input)
    /\ \A i \in 1..Len(input) : Flat[i].original_raw = input[i]

(***************************************************************************)
(* Header indent resolution (C2, C3, C8).  Block k >= 2 holds the          *)
(* (k-1)-th header; block 1 is the headerless leading block.               *)
(***************************************************************************)
HdrRaw(k) == document[k].header[1].original_raw.num_indent

HdrLevel(k) == document[k].header[1].indent_level

\* raw header indent and contents level of the block before block k, the
\* leading headerless block counting as raw indent 0 and contents level 0
PrevRaw(k) == IF k = 2 THEN 0 ELSE HdrRaw(k - 1)

PrevContents(k) == IF k = 2 THEN 0 ELSE HdrLevel(k - 1) + 1

\* level given by the ancestor lookup for the header of block k
AncestorLevel(k) ==
    LET same == {j \in 2..(k - 1) : HdrRaw(j) = HdrRaw(k)}
    IN  IF same = {} THEN 0 ELSE HdrLevel(Max(same))

\* C2 as stated: a header whose raw indent is strictly less than the raw
\* header indent of the previous block is a child of it, one level deeper
\* than the previous header.
C2_AsStated ==
    \A k \in 3..Len(document) :
        HdrRaw(k) < HdrRaw(k - 1) => HdrLevel(k) = HdrLevel(k - 1) + 1

\* C2 amended: a header whose raw indent is strictly GREATER than the raw
\* header indent of the previous block is a child: its indent_level is the
\* previous block's contents_indent_level(), one more than the previous
\* header's indent_level.
C2_ChildWhenDeeper ==
    \A k \in 2..Len(document) :
        HdrRaw(k) > PrevRaw(k) =>
            /\ HdrLevel(k) = PrevContents(k)
            /\ k > 2 => HdrLevel(k) = HdrLevel(k - 1) + 1

C2_Witness ==
    \E k \in 3..Len(document) :
        /\ HdrRaw(k) > HdrRaw(k - 1)
        /\ HdrLevel(k - 1) >= 1
        /\ HdrLevel(k) = HdrLevel(k - 1) + 1

\* C3 as stated: a header whose raw indent is strictly greater than the raw
\* header indent of the previous block gets the level of the most recent
\* earlier header with the same raw indent, and 0 when there is none.
C3_AsStated ==
    \A k \in 3..Len(document) :
        HdrRaw(k) > HdrRaw(k - 1) => HdrLevel(k) = AncestorLevel(k)

\* C3 amended: a header whose raw indent is strictly LESS than the raw
\* header indent of the previous block is resolved by ancestor lookup: it
\* gets the indent_level of the header of the most recent earlier block
\* whose raw header indent equals its own, and 0 when there is none.
C3_LookupWhenShallower ==
    \A k \in 3..Len(document) :
        HdrRaw(k) < HdrRaw(k - 1) => HdrLevel(k) = AncestorLevel(k)

C3_Witness ==
    \E k \in 3..Len(document) :
        /\ HdrRaw(k) < HdrRaw(k - 1)
        /\ \E j \in 2..(k - 1) : HdrRaw(j) = HdrRaw(k)
        /\ HdrLevel(k) >= 1
        /\ HdrLevel(k) = AncestorLevel(k)

\* C8: a header whose raw indent equals the raw header indent of the
\* previous block has the indent_level of the previous header; any two
\* headers of equal raw indent with no header of another raw indent between
\* them have equal indent_levels.
C8_SiblingsShareLevel ==
    \A j \in 2..Len(document) : \A k \in j..Len(document) :
        (\A m \in j..k : HdrRaw(m) = HdrRaw(j)) => HdrLevel(k) = HdrLevel(j)

C8_Witness ==
    \E k \in 3..Len(document) :
        /\ HdrRaw(k) = HdrRaw(k - 1)
        /\ HdrLevel(k - 1) >= 1
        /\ HdrLevel(k) = HdrLevel(k - 1)

(***************************************************************************)
(* List items and continuation lines (C4, C5, C9, C10).                    *)
(***************************************************************************)
Body(b) == document[b].lines

ContentsLevel(b) == IF b = 1 THEN 0 ELSE HdrLevel(b) + 1

IsItem(line) == line.line_type \in {"ListBulletPoint", "ListTodoItem"}

BodyRaw(b, j) == Body(b)[j].original_raw.num_indent

BodyLevel(b, j) == Body(b)[j].indent_level

\* body lines i < j of block b are list items with no list item between them
ConsecutiveItems(b, i, j) ==
    /\ i < j
    /\ IsItem(Body(b)[i])
    /\ IsItem(Body(b)[j])
    /\ \A m \in (i + 1)..(j - 1) : ~IsItem(Body(b)[m])

\* C4: of two consecutive list items of a block, bullet or task items in
\* any combination, a later one with a greater raw indent is exactly one
\* level deeper than the earlier one.
C4_SingleStepGrowth ==
    \A b \in 1..Len(document) : \A i, j \in 1..Len(Body(b)) :
        (ConsecutiveItems(b, i, j) /\ BodyRaw(b, j) > BodyRaw(b, i))
            => BodyLevel(b, j) = BodyLevel(b, i) + 1

\* C5: a list item is at most one level deeper than the list item
\* immediately before it in its block.
C5_AtMostOneDeeper ==
    \A b \in 1..Len(document) : \A i, j \in 1..Len(Body(b)) :
        ConsecutiveItems(b, i, j) => BodyLevel(b, j) <= BodyLevel(b, i) + 1

\* the "previous list item" of body line j of block b: the most recent
\* bullet item before it or, when the block has none, the most recent task
\* item; 0 when there is neither
PrevListItem(b, j) ==
    LET bullets == {i \in 1..(j - 1) : Body(b)[i].line_type = "ListBulletPoint"}
        todos   == {i \in 1..(j - 1) : Body(b)[i].line_type = "ListTodoItem"}
    IN  IF bullets # {} THEN Max(bullets)
        ELSE IF todos # {} THEN Max(todos)
        ELSE 0

\* level recorded in block b before line j for the raw indent of line j
ReplayLevel(b, j) ==
    LET same == {m \in 1..(j - 1) : BodyRaw(b, m) = BodyRaw(b, j)}
    IN  IF same = {} THEN ContentsLevel(b) ELSE BodyLevel(b, Max(same))

\* C9: a list item whose raw indent is smaller than the raw indent of the
\* previous list item of its block (the most recent bullet item or, failing
\* that, task item) has the indent_level of the most recent body line of
\* any type with its raw indent, and the block's contents_indent_level()
\* when the block has no such line.
C9_ShiftLeftReplays ==
    \A b \in 1..Len(document) : \A j \in 1..Len(Body(b)) :
        (/\ IsItem(Body(b)[j])
         /\ PrevListItem(b, j) # 0
         /\ BodyRaw(b, j) < BodyRaw(b, PrevListItem(b, j)))
            => BodyLevel(b, j) = ReplayLevel(b, j)

\* an item closes two nesting levels at once and returns to a recorded level
C9_Witness ==
    \E b \in 1..Len(document) : \E j \in 1..Len(Body(b)) :
        /\ j >= 2
        /\ IsItem(Body(b)[j])
        /\ PrevListItem(b, j) = j - 1
        /\ BodyRaw(b, j) < BodyRaw(b, j - 1)
        /\ \E m \in 1..(j - 1) : BodyRaw(b, m) = BodyRaw(b, j)
        /\ BodyLevel(b, j) + 2 <= BodyLevel(b, j - 1)
        /\ BodyLevel(b, j) = ReplayLevel(b, j)

\* body line j of block b is a line that is no header, list item or fence
\* marker, was met outside a fence, and follows a list item directly
AfterItemOutsideFence(b, j) ==
    /\ j >= 2
    /\ IsItem(Body(b)[j - 1])
    /\ Body(b)[j].original_raw.trimmed.cls \in {"plain", "empty"}
    /\ ~Body(b)[j].original_raw.trimmed.marker
    /\ ~in_fence(ctx_log[InputIndex(b, j)])

\* C10: outside a fence, a non-empty line that is no header, list item or
\* fence marker and directly follows a list item is a ListContinuousLine at
\* the indent_level of that item; an empty line there is no continuation
\* and sits at the block's contents_indent_level().
C10_Continuation ==
    \A b \in 1..Len(document) : \A j \in 1..Len(Body(b)) :
        AfterItemOutsideFence(b, j) =>
            IF Body(b)[j].original_raw.trimmed.cls = "plain"
              THEN /\ Body(b)[j].line_type = "ListContinuousLine"
                   /\ BodyLevel(b, j) = BodyLevel(b, j - 1)
              ELSE /\ Body(b)[j].line_type # "ListContinuousLine"
                   /\ BodyLevel(b, j) = ContentsLevel(b)

\* a block holds a continuation line of an item deeper than the block's
\* contents level and an empty line directly after such an item
C10_Witness ==
    \E b \in 1..Len(document) : \E j, k \in 1..Len(Body(b)) :
        /\ AfterItemOutsideFence(b, j)
        /\ Body(b)[j].original_raw.trimmed.cls = "plain"
        /\ Body(b)[j].line_type = "ListContinuousLine"
        /\ BodyLevel(b, j) > ContentsLevel(b)
        /\ AfterItemOutsideFence(b, k)
        /\ Body(b)[k].original_raw.trimmed.cls = "empty"
        /\ BodyLevel(b, k - 1) > ContentsLevel(b)
        /\ BodyLevel(b, k) = ContentsLevel(b)

(***************************************************************************)
(* Fences (C1, C6).                                                        *)
(***************************************************************************)
\* C1: inside a fence every line that is no fence marker, header and list
\* item syntax included, is appended to the current block as a Preformatted
\* line at the block's contents_indent_level(); none starts a block or
\* becomes a list item.
C1_FenceLinesPreformatted ==
    /\ \A b \in 1..Len(document) : \A j \in 1..Len(Body(b)) :
           (/\ in_fence(ctx_log[InputIndex(b, j)])
            /\ ~Body(b)[j].original_raw.trimmed.marker)
               => /\ Body(b)[j].line_type = "Preformatted"
                  /\ BodyLevel(b, j) = ContentsLevel(b)
    /\ \A b \in 2..Len(document) :
           ~in_fence(ctx_log[InputIndex(b, 0)])
               \/ document[b].header[1].original_raw.trimmed.marker

\* number of leading spaces of a line's contents
LeadingSpaces(line) == line.contents.spaces

\* lines i < j of the document are Preformatted lines of one fenced range
SameFencedRange(i, j) ==
    /\ i < j
    /\ Flat[i].line_type = "Preformatted"
    /\ Flat[j].line_type = "Preformatted"
    /\ \A k \in i..j : in_fence(ctx_log[k])

\* C6 as stated: the leading spaces of two Preformatted lines of one fenced
\* range differ by as much as their raw indents, for all raw indents.
C6_AsStated ==
    \A i, j \in 1..Len(Flat) :
        SameFencedRange(i, j) =>
            LeadingSpaces(Flat[j]) - LeadingSpaces(Flat[i])
                = Flat[j].original_raw.num_indent - Flat[i].original_raw.num_indent

\* C6 amended: the leading spaces of two Preformatted lines of one fenced
\* range differ by as much as their raw indents when neither raw indent is
\* smaller than the fence's base_indent.
C6_RelativeIndentKept ==
    \A i, j \in 1..Len(Flat) :
        (/\ SameFencedRange(i, j)
         /\ Flat[i].original_raw.num_indent >= ctx_log[i].base_indent
         /\ Flat[j].original_raw.num_indent >= ctx_log[i].base_indent)
            => LeadingSpaces(Flat[j]) - LeadingSpaces(Flat[i])
                   = Flat[j].original_raw.num_indent - Flat[i].original_raw.num_indent

\* two lines of a fence opened at a raw indent > 0, one of them deeper
C6_Witness ==
    \E i, j \in 1..Len(Flat) :
        /\ SameFencedRange(i, j)
        /\ ctx_log[i].base_indent >= 1
        /\ Flat[i].original_raw.num_indent >= ctx_log[i].base_indent
        /\ Flat[j].original_raw.num_indent > Flat[i].original_raw.num_indent
        /\ LeadingSpaces(Flat[j]) - LeadingSpaces(Flat[i])
               = Flat[j].original_raw.num_indent - Flat[i].original_raw.num_indent

(***************************************************************************)
(* Rendering and re-parsing (C7).  A line is written as indent_level units *)
(* of indentation followed by its contents; read back, its leading         *)
(* whitespace is that indentation, the whitespace prefix of a continuation *)
(* line and the spaces kept in a Preformatted line.                        *)
(***************************************************************************)
IndentWidth == 1

prefix_width(prefix) == IF prefix = "" THEN 0 ELSE 2

render_line(line) ==
    [num_indent |-> line.indent_level * IndentWidth
                        + prefix_width(line.contents.prefix)
                        + line.contents.spaces,
     trimmed    |-> line.contents.text]

render(doc) ==
    LET flat == flat_upto(doc, Len(doc))
    IN  [i \in 1..Len(flat) |-> render_line(flat[i])]

\* C7: parsing the rendering of a parsed document gives every line the
\* indent_level and the line_type it has in that document.
C7_Idempotent ==
    LET again  == parse_document(render(document))
        second == flat_upto(again, Len(again))
    IN  /\ Len(second) = Len(Flat)
        /\ \A i \in 1..Len(Flat) :
               /\ second[i].indent_level = Flat[i].indent_level
               /\ second[i].line_type = Flat[i].line_type

(***************************************************************************)
(* Fence mode (C11).                                                       *)
(***************************************************************************)
\* fence mode after the i-th input line (after construction for i = 0)
ContextAfter(i) == IF i < Len(input) THEN ctx_log[i + 1] ELSE context

\* the fence mode a marker line at raw indent n leaves, met in mode ctx
Toggled(ctx, n) ==
    IF ctx.mode = "Normal"
      THEN [mode |-> "HandlingFencedFiletype", base_indent |-> n]
      ELSE [mode |-> "Normal", base_indent |-> 0]

\* body line j of block b is resolved by the plain-line rule
PlainLineRule(b, j) ==
    IF j >= 2 /\ IsItem(Body(b)[j - 1])
         /\ Body(b)[j].original_raw.trimmed.cls # "empty"
      THEN /\ Body(b)[j].line_type = "ListContinuousLine"
           /\ BodyLevel(b, j) = BodyLevel(b, j - 1)
      ELSE /\ Body(b)[j].line_type = "Text"
           /\ BodyLevel(b, j) = ContentsLevel(b)

\* C11 as stated: fence mode starts as Normal and every line for which
\* contains_marker holds toggles it and is no Preformatted line.
C11_AsStated ==
    /\ ContextAfter(0).mode = "Normal"
    /\ \A i \in 1..Len(input) :
           input[i].trimmed.marker =>
               /\ ContextAfter(i) = Toggled(ctx_log[i], input[i].num_indent)
               /\ Flat[i].line_type # "Preformatted"

\* C11 amended: fence mode starts as Normal, and every line that is no
\* header and no list item and for which contains_marker holds toggles it,
\* from Normal to inside a fence with base_indent the raw indent of that
\* line and from inside a fence back to Normal; the line is appended to the
\* current block, resolved by the plain-line rule, never as Preformatted.
C11_MarkerToggles ==
    /\ ContextAfter(0).mode = "Normal"
    /\ \A b \in 1..Len(document) : \A j \in 1..Len(Body(b)) :
           LET i == InputIndex(b, j)
           IN  (input[i].trimmed.marker /\ input[i].trimmed.cls = "plain") =>
                   /\ ContextAfter(i) = Toggled(ctx_log[i], input[i].num_indent)
                   /\ PlainLineRule(b, j)
    /\ \A b \in 2..Len(document) :
           LET i == InputIndex(b, 0)
           IN  input[i].trimmed.cls = "header"

\* a fence opened at raw indent >= 1 by a marker line that continues a list
\* item, and closed again by a second marker line
C11_Witness ==
    \E b \in 1..Len(document) : \E j, k \in 1..Len(Body(b)) :
        /\ j < k
        /\ input[InputIndex(b, j)].trimmed.marker
        /\ input[InputIndex(b, j)].trimmed.cls = "plain"
        /\ input[InputIndex(b, j)].num_indent >= 1
        /\ Body(b)[j].line_type = "ListContinuousLine"
        /\ ContextAfter(InputIndex(b, j)) =
               [mode |-> "HandlingFencedFiletype",
                base_indent |-> input[InputIndex(b, j)].num_indent]
        /\ input[InputIndex(b, k)].trimmed.marker
        /\ input[InputIndex(b, k)].trimmed.cls = "plain"
        /\ ContextAfter(InputIndex(b, k)).mode = "Normal"
        /\ Body(b)[k].line_type = "Text"

(***************************************************************************)
(* Contents of Preformatted lines (C12).                                   *)
(***************************************************************************)
\* input lines before line i that opened a fence
Openers(i) ==
    {k \in 1..(i - 1) : ctx_log[k].mode = "Normal"
                           /\ ContextAfter(k).mode = "HandlingFencedFiletype"}

\* C12: the contents of a Preformatted line are max(0, raw indent of the
\* line - raw indent of the marker line that opened the enclosing fence)
\* spaces followed by the trimmed text of the line.
C12_PreformattedContents ==
    \A i \in 1..Len(Flat) :
        Flat[i].line_type = "Preformatted" =>
            /\ Openers(i) # {}
            /\ LET base == input[Max(Openers(i))].num_indent
                   raw  == input[i].num_indent
               IN  /\ input[Max(Openers(i))].trimmed.marker
                   /\ Flat[i].contents.prefix = ""
                   /\ Flat[i].contents.spaces = (IF raw > base THEN raw - base ELSE 0)
                   /\ Flat[i].contents.text = input[i].trimmed

\* a line at raw indent 4 in a fence opened at raw indent 2 has 2 spaces
C12_Witness ==
    \E i \in 1..Len(Flat) :
        /\ Flat[i].line_type = "Preformatted"
        /\ Openers(i) # {}
        /\ input[Max(Openers(i))].num_indent = 2
        /\ input[i].num_indent = 4
        /\ Flat[i].contents.spaces = 2

(***************************************************************************)
(* No abort (C13).                                                         *)
(***************************************************************************)
\* C13: no assertion fails: the header indent computation is only reached
\* with a header line and the list indent computation only with a list
\* item line, every line is taken by an arm of the chain, and every line
\* consumed so far is in the Document, inside a fence or not.
C13_NeverAborts ==
    /\ ~aborted
    /\ Len(Flat) = Len(input)
    /\ \A raw_line \in AllLines :
           /\ header_dispatch(raw_line) => header_assertion(raw_line)
           /\ list_item_dispatch(raw_line) => list_item_assertion(raw_line)
           /\ \/ header_dispatch(raw_line)
              \/ list_item_dispatch(raw_line)
              \/ marker_dispatch(raw_line)
              \/ other_dispatch(raw_line)

\* an input with a header and a list item that ends inside a fence
C13_Witness ==
    /\ ~aborted
    /\ Len(input) = MaxLines
    /\ Len(Flat) = MaxLines
    /\ in_fence(context)
    /\ \E i \in 1..Len(input) : input[i].trimmed.cls = "header"
    /\ \E i \in 1..Len(input) : input[i].trimmed.cls \in {"bullet", "todo"}

(***************************************************************************)
(* Shape of the Document (C14).                                            *)
(***************************************************************************)
HeaderLinesOfInput == {i \in 1..Len(input) : input[i].trimmed.cls = "header"}

\* C14: the Document has 1 + (number of header lines) blocks, the first of
\* them headerless and every other with a header, and its lines in document
\* order (header, then body, block after block) are the input lines in
\* input order, one FormattedLine each, carrying that line as original_raw.
C14_OneLinePerInput ==
    /\ Len(document) = 1 + Cardinality(HeaderLinesOfInput)
    /\ document[1].header = <<>>
    /\ \A b \in 2..Len(document) :
           /\ Len(document[b].header) = 1
           /\ document[b].header[1].line_type = "Header"
    /\ \A b \in 1..Len(document) : \A j \in 1..Len(Body(b)) :
           Body(b)[j].line_type # "Header"
    /\ Len(Flat) = Len(input)
    /\ \A i \in 1..Len(input) : Flat[i].original_raw = input[i]

\* three different lines: one before the first header, a header, one after
C14_Witness ==
    /\ Len(input) = 3
    /\ input[1] # input[3]
    /\ Len(document) = 2
    /\ Len(document[1].lines) = 1
    /\ Len(document[2].lines) = 1
    /\ document[1].lines[1].original_raw = input[1]
    /\ document[2].header[1].original_raw = input[2]
    /\ document[2].lines[1].original_raw = input[3]

(***************************************************************************)
(* Append only (C15).                                                      *)
(***************************************************************************)
\* s is t with one element appended
OneAppended(s, t) == Len(s) = Len(t) + 1 /\ SubSeq(s, 1, Len(t)) = t

\* C15: a step that consumes a header line appends one block, with that
\* header and no body line, and leaves every block there was unchanged; a
\* step that consumes any other line appends one line to the last block and
\* leaves its header, its earlier lines and every earlier block unchanged.
C15_AppendOnly ==
    [][ /\ OneAppended(input', input)
        /\ IF input'[Len(input')].trimmed.cls = "header"
             THEN /\ OneAppended(document', document)
                  /\ document'[Len(document')].lines = <<>>
                  /\ Len(document'[Len(document')].header) = 1
                  /\ document'[Len(document')].header[1].original_raw
                         = input'[Len(input')]
             ELSE /\ Len(document') = Len(document)
                  /\ \A k \in 1..(Len(document) - 1) : document'[k] = document[k]
                  /\ document'[Len(document)].header = document[Len(document)].header
                  /\ OneAppended(document'[Len(document)].lines,
                                 document[Len(document)].lines)
                  /\ document'[Len(document)].lines[Len(document'[Len(document)].lines)]
                         .original_raw = input'[Len(input')]
      ]_vars

\* a line has been appended to a block that follows a block with a line
C15_Witness ==
    /\ Len(document) = 2
    /\ Len(document[1].lines) = 1
    /\ Len(document[2].lines) = 1
    /\ Len(input) = 3

(***************************************************************************)
(* Body lines are never above their block (C16).                           *)
(***************************************************************************)
\* C16: every body line of a block has an indent_level of at least the
\* block's contents_indent_level(), hence is deeper than the block's header
\* when there is one; Text and Preformatted lines are exactly at
\* contents_indent_level().
C16_BodyBelowHeader ==
    \A b \in 1..Len(document) : \A j \in 1..Len(Body(b)) :
        /\ BodyLevel(b, j) >= ContentsLevel(b)
        /\ b >= 2 => BodyLevel(b, j) > HdrLevel(b)
        /\ Body(b)[j].line_type \in {"Text", "Preformatted"}
               => BodyLevel(b, j) = ContentsLevel(b)

\* a block under a nested header that holds a Text line and a list item
\* nested below the contents level
C16_Witness ==
    \E b \in 2..Len(document) :
        /\ HdrLevel(b) >= 1
        /\ \E j \in 1..Len(Body(b)) : Body(b)[j].line_type = "Text"
        /\ \E j \in 1..Len(Body(b)) :
               IsItem(Body(b)[j]) /\ BodyLevel(b, j) > ContentsLevel(b)

(***************************************************************************)
(* Header nesting (C17).                                                   *)
(***************************************************************************)
\* C17: the first header is at level 0 and every other header is at most
\* one level deeper than the header before it.
C17_NoSkippedLevel ==
    \A k \in 2..Len(document) :
        IF k = 2 THEN HdrLevel(k) = 0 ELSE HdrLevel(k) <= HdrLevel(k - 1) + 1

====
